---- MODULE Spec2Model ----
(***************************************************************************)
(* A model of crates-index-diff's Index (src/index.rs): the last-seen      *)
(* reference, peek_changes / fetch_changes / set_last_seen_reference, and  *)
(* the extraction of CrateVersions from the patch between two trees.       *)
(*                                                                         *)
(* The git repository is modelled by what Index reads and writes of it:    *)
(* the remote's master history, the local remote-tracking branch, the      *)
(* local object database (the commits fetched so far, their trees and      *)
(* blobs) and the last-seen reference.                                     *)
(***************************************************************************)
EXTENDS Integers, Sequences, FiniteSets

\* The remote's master branch gets at most this many commits.
MaxCommits == 2

\* The callers of the Index (threads or processes sharing one repository).
Procs == {1, 2}

\* The files of the index, in the order git lists the entries of a tree.
PathOrder == <<"a", "b">>
Paths == {PathOrder[i] : i \in 1..Len(PathOrder)}

(***************************************************************************)
(* Lines of the index files.  A line is the text of one JSON record        *)
(* ("record"), some other JSON value ("json") or anything else ("text").   *)
(***************************************************************************)
RecordLine(name, vers) == [kind |-> "record", name |-> name, vers |-> vers]
JsonLine == [kind |-> "json", name |-> "", vers |-> 0]
TextLine == [kind |-> "text", name |-> "", vers |-> 0]

\* serde_json::from_slice::<CrateVersion>(diffline.content())
from_slice(content) ==
    IF content.kind = "record"
    THEN [ok |-> TRUE, value |-> [name |-> content.name, vers |-> content.vers]]
    ELSE [ok |-> FALSE, value |-> [name |-> "", vers |-> 0]]

(***************************************************************************)
(* Trees.  A tree maps each of its paths to the lines of the file there.   *)
(***************************************************************************)
EmptyTree == [q \in {} |-> <<>>]

\* The tree `t` with `line` appended to the file at `path` (created if missing).
AppendLine(t, path, line) ==
    [q \in DOMAIN t \cup {path} |->
        IF q = path
        THEN (IF path \in DOMAIN t THEN Append(t[path], line) ELSE <<line>>)
        ELSE t[q]]

(***************************************************************************)
(* Object ids.  A commit is named by its position in the remote history;   *)
(* "tree n" is the tree of commit n and "blob n" a file of that tree.      *)
(* Tree 0 is the empty tree, which git knows without storing it.           *)
(***************************************************************************)
Oid(kind, n) == [kind |-> kind, n |-> n]
NoOid == Oid("none", 0)
EMPTY_TREE_HASH == Oid("tree", 0)
LINE_ADDED_INDICATOR == "+"

\* Whether the local object database of a repository whose remote-tracking
\* branch is at commit `known` holds the object.
ObjectExists(known, oid) ==
    \/ oid = EMPTY_TREE_HASH
    \/ oid.kind \in {"commit", "tree", "blob"} /\ 1 <= oid.n /\ oid.n <= known

\* repo.find_object(oid, None)
find_object(known, oid) ==
    IF ObjectExists(known, oid)
    THEN [ok |-> TRUE, obj |-> oid]
    ELSE [ok |-> FALSE, obj |-> NoOid]

\* repo.find_tree(id): the content of a tree object.
find_tree(hist, known, id) ==
    IF id.kind = "tree" /\ ObjectExists(known, id)
    THEN [ok |-> TRUE, tree |-> IF id.n = 0 THEN EmptyTree ELSE hist[id.n]]
    ELSE [ok |-> FALSE, tree |-> EmptyTree]

\* A variant that looks every object up as a tree, commits too.
into_tree_NoPeel(hist, known, obj) == find_tree(hist, known, obj)

\* A variant that takes the tree of whatever object it is given.
into_tree_PeelsAnything(hist, known, obj) ==
    find_tree(hist, known, Oid("tree", obj.n))

\* fn into_tree: a commit gives its tree, anything else is looked up as a tree.
into_tree(hist, known, obj) ==
    find_tree(hist, known,
              IF obj.kind = "commit" THEN Oid("tree", obj.n) ELSE obj)

(***************************************************************************)
(* The diff of two trees and its rendering as a patch.                     *)
(***************************************************************************)
RECURSIVE EditCost(_)
EditCost(script) ==
    IF script = <<>> THEN 0
    ELSE (IF Head(script).origin = " " THEN 0 ELSE 1) + EditCost(Tail(script))

\* The lines of one hunk: a shortest edit script from `a` to `b`, removals
\* before additions where both are as short.
RECURSIVE EditScript(_, _)
EditScript(a, b) ==
    IF a = <<>> THEN [i \in 1..Len(b) |-> [origin |-> "+", content |-> b[i]]]
    ELSE IF b = <<>> THEN [i \in 1..Len(a) |-> [origin |-> "-", content |-> a[i]]]
    ELSE IF Head(a) = Head(b)
    THEN <<[origin |-> " ", content |-> Head(a)]>> \o EditScript(Tail(a), Tail(b))
    ELSE LET del == <<[origin |-> "-", content |-> Head(a)]>> \o EditScript(Tail(a), b)
             add == <<[origin |-> "+", content |-> Head(b)]>> \o EditScript(a, Tail(b))
         IN  IF EditCost(del) <= EditCost(add) THEN del ELSE add

\* The delta of one path, or no delta when the path is unchanged.
PathDelta(old, new, path) ==
    IF path \notin DOMAIN old /\ path \in DOMAIN new
    THEN <<[status |-> "Added", path |-> path, lines |-> EditScript(<<>>, new[path])]>>
    ELSE IF path \in DOMAIN old /\ path \notin DOMAIN new
    THEN <<[status |-> "Deleted", path |-> path, lines |-> EditScript(old[path], <<>>)]>>
    ELSE IF path \in DOMAIN old /\ path \in DOMAIN new /\ old[path] # new[path]
    THEN <<[status |-> "Modified", path |-> path, lines |-> EditScript(old[path], new[path])]>>
    ELSE <<>>

\* repo.diff_tree_to_tree(Some(old), Some(new), None): the deltas in path order.
RECURSIVE DeltasFrom(_, _, _)
DeltasFrom(old, new, i) ==
    IF i > Len(PathOrder) THEN <<>>
    ELSE PathDelta(old, new, PathOrder[i]) \o DeltasFrom(old, new, i + 1)

diff_tree_to_tree(old, new) == DeltasFrom(old, new, 1)

\* The lines diff.print(DiffFormat::Patch, ..) hands to its callback for one
\* delta: the file header ("F"), then, when the delta has lines, the hunk
\* header ("H") and the hunk's lines.
PatchOfDelta(delta) ==
    LET hdr(o) == [origin |-> o, status |-> delta.status, path |-> delta.path,
                   content |-> TextLine]
        body == [i \in 1..Len(delta.lines) |->
                    [origin |-> delta.lines[i].origin, status |-> delta.status,
                     path |-> delta.path, content |-> delta.lines[i].content]]
    IN  IF delta.lines = <<>> THEN <<hdr("F")>>
        ELSE <<hdr("F"), hdr("H")>> \o body

RECURSIVE Patch(_)
Patch(deltas) ==
    IF deltas = <<>> THEN <<>>
    ELSE PatchOfDelta(Head(deltas)) \o Patch(Tail(deltas))

\* A variant that pushes a value for every added line, parsed or not.
PrintCallback_PushesUnparsed(res, diffline) ==
    IF diffline.origin # LINE_ADDED_INDICATOR THEN res
    ELSE IF ~(diffline.status \in {"Added", "Modified"}) THEN res
    ELSE Append(res, from_slice(diffline.content).value)

\* A variant that keeps one of each record.
PrintCallback_Dedups(res, diffline) ==
    IF diffline.origin # LINE_ADDED_INDICATOR THEN res
    ELSE IF ~(diffline.status \in {"Added", "Modified"}) THEN res
    ELSE LET c == from_slice(diffline.content)
         IN  IF c.ok /\ ~(\E i \in DOMAIN res : res[i] = c.value)
             THEN Append(res, c.value) ELSE res

\* A variant that does not look at the origin of the line.
PrintCallback_AnyOrigin(res, diffline) ==
    IF ~(diffline.status \in {"Added", "Modified"}) THEN res
    ELSE LET c == from_slice(diffline.content)
         IN  IF c.ok THEN Append(res, c.value) ELSE res

\* A variant that takes the removed lines instead of the added ones.
PrintCallback_TakesRemoved(res, diffline) ==
    IF diffline.origin # "-" THEN res
    ELSE IF ~(diffline.status \in {"Added", "Modified"}) THEN res
    ELSE LET c == from_slice(diffline.content)
         IN  IF c.ok THEN Append(res, c.value) ELSE res

\* The closure given to diff.print: what it does to `res` for one line.
PrintCallback(res, diffline) ==
    IF diffline.origin # LINE_ADDED_INDICATOR THEN res
    ELSE IF ~(diffline.status \in {"Added", "Modified"}) THEN res
    ELSE LET c == from_slice(diffline.content)
         IN  IF c.ok THEN Append(res, c.value) ELSE res

\* A variant in which the scan ends at the first added line that does not
\* parse.
RECURSIVE diff_print_StopsAtBadLine(_, _)
diff_print_StopsAtBadLine(patch, res) ==
    IF patch = <<>> THEN res
    ELSE IF /\ Head(patch).origin = LINE_ADDED_INDICATOR
            /\ ~from_slice(Head(patch).content).ok
    THEN res
    ELSE diff_print_StopsAtBadLine(Tail(patch), PrintCallback(res, Head(patch)))

\* diff.print(DiffFormat::Patch, callback): the callback on every line, in order.
RECURSIVE diff_print(_, _)
diff_print(patch, res) ==
    IF patch = <<>> THEN res
    ELSE diff_print(Tail(patch), PrintCallback(res, Head(patch)))

Ok(v) == [ok |-> TRUE, value |-> v, err |-> "none"]
Err(e) == [ok |-> FALSE, value |-> <<>>, err |-> e]

\* Index::changes_from_objects.  `fault` is what the engine does: "none", or
\* an error of diff_tree_to_tree ("diff") or of diff.print ("print").
changes_from_objects(hist, known, from, to, fault) ==
    LET ft == into_tree(hist, known, from)
        tt == into_tree(hist, known, to)
    IN  IF ~ft.ok \/ ~tt.ok THEN Err("find_tree")
        ELSE IF fault = "diff" THEN Err("diff")
        ELSE IF fault = "print" THEN Err("print")
        ELSE Ok(diff_print(Patch(diff_tree_to_tree(ft.tree, tt.tree)), <<>>))

(***************************************************************************)
(* The last-seen reference (refs/heads/crates-index-diff_last-seen).  It   *)
(* is absent, a direct reference to an object, a symbolic reference, which *)
(* has no target of its own, or a reference that is there but cannot be    *)
(* read.                                                                   *)
(***************************************************************************)
Absent == [state |-> "absent", target |-> NoOid]
Direct(oid) == [state |-> "direct", target |-> oid]
Symbolic == [state |-> "symbolic", target |-> NoOid]
Unreadable(oid) == [state |-> "unreadable", target |-> oid]

\* Index::last_seen_reference: repo.find_reference(seen_ref_name).
last_seen_reference(seen) ==
    IF seen.state \in {"absent", "unreadable"}
    THEN [ok |-> FALSE, ref |-> seen]
    ELSE [ok |-> TRUE, ref |-> seen]

\* A variant that forgets the reference: every call starts from the empty tree.
PeekFrom_Forgets(seen) == EMPTY_TREE_HASH

\* A variant without the fallback to the empty tree.
PeekFrom_NoFallback(seen) ==
    LET r == last_seen_reference(seen)
    IN  IF r.ok /\ r.ref.state = "direct" THEN r.ref.target ELSE NoOid

\* A variant that falls back to the empty tree only when there is no
\* reference.
PeekFrom_OnlyWhenAbsent(seen) ==
    LET r == last_seen_reference(seen)
    IN  IF r.ok /\ r.ref.state = "direct" THEN r.ref.target
        ELSE IF seen.state = "absent" THEN EMPTY_TREE_HASH
        ELSE NoOid

\* The `from` of peek_changes_with_options: the target of the last-seen
\* reference, or the empty tree when the reference or its target is missing.
PeekFrom(seen) ==
    LET r == last_seen_reference(seen)
    IN  IF r.ok /\ r.ref.state = "direct" THEN r.ref.target ELSE EMPTY_TREE_HASH

\* repo.reference(name, oid, force, log_message) on the last-seen reference.
\* `io` is whether the engine's write goes through.
reference(seen, known, oid, force, io) ==
    IF io /\ ObjectExists(known, oid) /\ (force \/ seen.state = "absent")
    THEN [ok |-> TRUE, seen |-> Direct(oid)]
    ELSE [ok |-> FALSE, seen |-> seen]

\* Reference::set_target(oid, log_message), of a reference that was found.
set_target(seen, known, oid, io) ==
    IF io /\ ObjectExists(known, oid) /\ seen.state = "direct"
    THEN [ok |-> TRUE, seen |-> Direct(oid)]
    ELSE [ok |-> FALSE, seen |-> seen]

\* A variant that only creates the reference and never overwrites it.
set_last_seen_reference_CreateOnly(seen, known, to, io) ==
    reference(seen, known, to, FALSE, io.reference)

\* Index::set_last_seen_reference.  `io` says which of the engine's two
\* writes go through: io.set_target and io.reference.
set_last_seen_reference(seen, known, to, io) ==
    LET found == last_seen_reference(seen)
        st == IF found.ok THEN set_target(seen, known, to, io.set_target)
              ELSE [ok |-> FALSE, seen |-> seen]
    IN  IF st.ok THEN st
        ELSE reference(seen, known, to, TRUE, io.reference)

\* What the engine may do to the two writes.
WriteIO == [set_target : BOOLEAN, reference : BOOLEAN]

(***************************************************************************)
(* A call of peek_changes_with_options or fetch_changes_with_options, as   *)
(* the steps it takes in order.  fetch_changes_with_options is             *)
(* peek_changes_with_options followed by set_last_seen_reference.          *)
(***************************************************************************)
PeekSteps == <<"last_seen", "fetch", "refname_to_id", "changes">>
FetchSteps == PeekSteps \o <<"set_last_seen">>
\* A variant in which peek_changes persists too.
StepsOf_PeekPersists(op) == FetchSteps

\* A variant in which fetch_changes persists before the changes are computed.
StepsOf_PersistsEarly(op) ==
    IF op = "fetch_changes"
    THEN <<"last_seen", "fetch", "refname_to_id", "set_last_seen", "changes">>
    ELSE PeekSteps

\* A variant in which `to` is resolved before the fetch.
StepsOf_ResolvesEarly(op) ==
    IF op = "fetch_changes"
    THEN <<"last_seen", "refname_to_id", "fetch", "changes", "set_last_seen">>
    ELSE <<"last_seen", "refname_to_id", "fetch", "changes">>

StepsOf(op) == IF op = "fetch_changes" THEN FetchSteps ELSE PeekSteps

\* The step after `pc` in a call of `op`, "return" after the last one.
After(op, pc) ==
    LET steps == StepsOf(op)
        i == CHOOSE k \in 1..Len(steps) : steps[k] = pc
    IN  IF i = Len(steps) THEN "return" ELSE steps[i + 1]

\* The locals of a call.  seen0 is the last-seen reference when the call
\* began, fetched the remote tip the call's fetch brought in (0 before it) and
\* trace the steps taken so far; the code holds none of the three.
IdleCall ==
    [pc |-> "idle", op |-> "none", from |-> NoOid, to |-> NoOid,
     changes |-> <<>>, seen0 |-> Absent, fetched |-> 0, trace |-> <<>>]

\* What an operation returned: Ok(value), with the `to` it resolved, or
\* Err(err); and of the call that returned, seen0 and trace.
NoRet ==
    [op |-> "none", ok |-> FALSE, value |-> <<>>, to |-> NoOid, err |-> "none",
     seen0 |-> Absent, trace |-> <<>>]

\* repo.revparse_single(rev).  A revision is the id of an object or the name
\* of one of the two references; it resolves to the object it names.
Rev(name) == [kind |-> name, n |-> 0]
LAST_SEEN_REFNAME == "refs/heads/crates-index-diff_last-seen"
ORIGIN_MASTER == "refs/remotes/origin/master"

revparse_single(seen, known, rev) ==
    IF rev.kind = ORIGIN_MASTER
    THEN find_object(known, IF known > 0 THEN Oid("commit", known) ELSE NoOid)
    ELSE IF rev.kind = LAST_SEEN_REFNAME
    THEN find_object(known, IF seen.state = "direct" THEN seen.target ELSE NoOid)
    ELSE find_object(known, rev)

\* A variant that starts from the last-seen reference, as peek_changes does,
\* instead of from `from`.
changes_FromLastSeen(hist, seen, known, from, to, fault) ==
    LET fo == find_object(known, PeekFrom(seen))
        to_ == revparse_single(seen, known, to)
    IN  IF ~fo.ok \/ ~to_.ok THEN Err("revparse_single")
        ELSE changes_from_objects(hist, known, fo.obj, to_.obj, fault)

\* Index::changes
changes(hist, seen, known, from, to, fault) ==
    LET fo == revparse_single(seen, known, from)
        to_ == revparse_single(seen, known, to)
    IN  IF ~fo.ok \/ ~to_.ok THEN Err("revparse_single")
        ELSE changes_from_objects(hist, known, fo.obj, to_.obj, fault)

(***************************************************************************)
(* The state.                                                              *)
(***************************************************************************)
VARIABLES
    remote,         \* the remote's master history: the tree of each commit
    origin_master,  \* refs/remotes/origin/master: 0 when missing, else the commit
    last_seen,      \* the last-seen reference
    call,           \* call[p]: the peek/fetch call caller p is in, its locals
    ret,            \* what the operation that returned last returned, until taken
    written,        \* the last successful write of the last-seen reference
    told,           \* what successful fetch_changes calls returned so far
    tos,            \* the `to` of every successful peek/fetch call so far
    interleaved,    \* whether a call ever began while another was in progress
    asked,          \* the arguments of the changes / changes_from_objects call
                    \* that returned last, until its result is taken
    first,          \* an earlier successful changes call: its arguments, what
                    \* they resolved to and what it returned
    disk,           \* disk[path]: the repository at the path, if any, and the
                    \* URL of its remote "origin"
    opened          \* what from_path_or_cloned_with_options returned last

vars == <<remote, origin_master, last_seen, call, ret, written, told, tos,
          interleaved, asked, first, disk, opened>>

\* What is kept of the calls of changes and changes_from_objects.
NoAsk == [from |-> NoOid, to |-> NoOid, fault |-> "none"]
Ask(from, to, fault) == [from |-> from, to |-> to, fault |-> fault]

\* No changes call is remembered.
NoFirst == [set |-> FALSE, from |-> NoOid, to |-> NoOid, rfrom |-> NoOid,
            rto |-> NoOid, value |-> <<>>, seen |-> Absent]

(***************************************************************************)
(* Opening the index.  At a path of the disk there is no repository, or a  *)
(* repository whose remote "origin" is missing ("none"), has a URL that    *)
(* is no UTF-8 ("nourl"), or has a URL.                                    *)
(***************************************************************************)
INDEX_GIT_URL == "https://github.com/rust-lang/crates.io-index"
Urls == {INDEX_GIT_URL, "https://example.com/mirror"}
DiskPaths == {"p1", "p2"}

NoRepo == [repo |-> FALSE, origin |-> "none"]
Repo(origin) == [repo |-> TRUE, origin |-> origin]
DiskStates == {NoRepo} \cup {Repo(o) : o \in Urls \cup {"none", "nourl"}}

\* What the engine does during one call: whether Repository::open fails for
\* another reason than a missing repository, and whether a clone succeeds.
OpenIO == [open_fails : BOOLEAN, clone : BOOLEAN]

\* Repository::open(path): the class of its error when it fails.
Repository_open(d, fails) ==
    IF fails THEN [ok |-> FALSE, class |-> "Os"]
    ELSE IF ~d.repo THEN [ok |-> FALSE, class |-> "Repository"]
    ELSE [ok |-> TRUE, class |-> "none"]

\* RepoBuilder::new().bare(true).clone(url, path)
clone(d, url, works) ==
    IF works THEN [ok |-> TRUE, disk |-> Repo(url)]
    ELSE [ok |-> FALSE, disk |-> d]

\* What from_path_or_cloned_with_options returns: Ok(Index) or the error,
\* whether it called clone, and what is at the path afterwards.
Opened(ok, err, cloned, d) == [ok |-> ok, err |-> err, cloned |-> cloned, disk |-> d]

\* A variant that does not compare the URL of "origin" with the expected one.
from_path_or_cloned_with_options_NoUrlCheck(d, repository_url, io) ==
    LET o == Repository_open(d, io.open_fails)
        c == clone(d, repository_url, io.clone)
    IN  IF ~o.ok /\ o.class # "Repository" THEN Opened(FALSE, "open", FALSE, d)
        ELSE IF ~o.ok /\ ~c.ok THEN Opened(FALSE, "clone", TRUE, c.disk)
        ELSE IF ~o.ok THEN Opened(TRUE, "none", TRUE, c.disk)
        ELSE Opened(TRUE, "none", FALSE, d)

\* Index::from_path_or_cloned_with_options on a path holding `d`.
from_path_or_cloned_with_options(d, repository_url, io) ==
    LET o == Repository_open(d, io.open_fails)
        repo_did_exist == o.ok
        c == clone(d, repository_url, io.clone)
    IN  IF ~o.ok /\ o.class # "Repository" THEN Opened(FALSE, "open", FALSE, d)
        ELSE IF ~o.ok /\ ~c.ok THEN Opened(FALSE, "clone", TRUE, c.disk)
        ELSE IF ~o.ok THEN Opened(TRUE, "none", TRUE, c.disk)
        ELSE IF repo_did_exist /\ d.origin = "none"
        THEN Opened(FALSE, "find_remote", FALSE, d)
        ELSE IF repo_did_exist /\ d.origin = "nourl"
        THEN Opened(FALSE, "url", FALSE, d)
        ELSE IF repo_did_exist /\ d.origin # repository_url
        THEN Opened(FALSE, "mismatch", FALSE, d)
        ELSE Opened(TRUE, "none", FALSE, d)

\* No call of from_path_or_cloned_with_options has returned.
NoIndex == [path |-> "", url |-> "", io |-> [open_fails |-> FALSE, clone |-> FALSE],
            before |-> NoRepo, ok |-> FALSE, err |-> "none", cloned |-> FALSE]

\* The disk of an Index that was opened: its repository is a clone of the
\* index.
OpenedDisk ==
    [path \in DiskPaths |-> IF path = "p1" THEN Repo(INDEX_GIT_URL) ELSE NoRepo]

\* What one caller's step sees and changes: the repository, the caller's
\* locals and the returned value.
World(p) ==
    [seen |-> last_seen, known |-> origin_master, c |-> call[p], ret |-> ret]

\* The call returns `result`: its locals are dropped.
Return(w, result) ==
    [w EXCEPT !.c = IdleCall,
              !.ret = [op |-> w.c.op, ok |-> result.ok, value |-> result.value,
                       to |-> IF result.ok THEN w.c.to ELSE NoOid,
                       err |-> result.err, seen0 |-> w.c.seen0,
                       trace |-> w.c.trace]]

\* The call goes on to its next step, or returns its changes after the last.
Proceed(w) ==
    LET nxt == After(w.c.op, w.c.pc)
    IN  IF nxt = "return" THEN Return(w, Ok(w.c.changes))
        ELSE [w EXCEPT !.c.pc = nxt]

Did(w, step) == [w EXCEPT !.c.trace = Append(@, step)]

\* The call begins.
StepBegin(w, op) ==
    [w EXCEPT !.c = [IdleCall EXCEPT !.pc = Head(StepsOf(op)), !.op = op,
                                     !.seen0 = w.seen]]

\* index.rs 111-118: `from` is read from the last-seen reference.
StepLastSeen(w) ==
    Proceed([Did(w, "last_seen") EXCEPT !.c.from = PeekFrom(w.seen)])

\* index.rs 120-122: find_remote("origin") and fetch.  `tip` is the remote's
\* master; the fetch succeeds ("ok"), fails leaving the repository as it was
\* ("fail"), or fails after the remote-tracking branch was updated ("fail_late").
StepFetch(w, tip, outcome) ==
    IF outcome = "ok"
    THEN Proceed([Did(w, "fetch") EXCEPT !.known = tip, !.c.fetched = tip])
    ELSE IF outcome = "fail_late"
    THEN Return([Did(w, "fetch") EXCEPT !.known = tip], Err("fetch"))
    ELSE Return(Did(w, "fetch"), Err("fetch"))

\* index.rs 123-125: refname_to_id("refs/remotes/origin/master").
StepRefnameToId(w) ==
    IF w.known = 0 THEN Return(Did(w, "refname_to_id"), Err("refname_to_id"))
    ELSE Proceed([Did(w, "refname_to_id") EXCEPT !.c.to = Oid("commit", w.known)])

\* index.rs 128-134: both objects are looked up and changes_from_objects runs.
StepChanges(hist, w, fault) ==
    LET fo == find_object(w.known, w.c.from)
        to == find_object(w.known, w.c.to)
        r == changes_from_objects(hist, w.known, fo.obj, to.obj, fault)
    IN  IF fault = "find_object" \/ ~fo.ok \/ ~to.ok
        THEN Return(Did(w, "changes"), Err("find_object"))
        ELSE IF ~r.ok THEN Return(Did(w, "changes"), r)
        ELSE Proceed([Did(w, "changes") EXCEPT !.c.changes = r.value])

\* A variant that persists `from` instead of `to`.
StepSetLastSeen_PersistsFrom(w, io) ==
    LET r == set_last_seen_reference(w.seen, w.known, w.c.from, io)
    IN  IF r.ok THEN Proceed([Did(w, "set_last_seen") EXCEPT !.seen = r.seen])
        ELSE Return(Did(w, "set_last_seen"), Err("set_last_seen"))

\* index.rs 152-153: set_last_seen_reference(to)?; Ok(changes)
StepSetLastSeen(w, io) ==
    LET r == set_last_seen_reference(w.seen, w.known, w.c.to, io)
    IN  IF r.ok THEN Proceed([Did(w, "set_last_seen") EXCEPT !.seen = r.seen])
        ELSE Return(Did(w, "set_last_seen"), Err("set_last_seen"))

\* What the engine does during one call: to the fetch, to the diff and to
\* the writes of the reference.
Engines == [fetch : {"ok", "fail", "fail_late"},
            fault : {"none", "find_object", "diff", "print"},
            io : WriteIO]
Healthy == [fetch |-> "ok", fault |-> "none",
            io |-> [set_target |-> TRUE, reference |-> TRUE]]

\* The step a call is at.
Step(hist, w, e) ==
    IF w.c.pc = "last_seen" THEN StepLastSeen(w)
    ELSE IF w.c.pc = "fetch" THEN StepFetch(w, Len(hist), e.fetch)
    ELSE IF w.c.pc = "refname_to_id" THEN StepRefnameToId(w)
    ELSE IF w.c.pc = "changes" THEN StepChanges(hist, w, e.fault)
    ELSE IF w.c.pc = "set_last_seen" THEN StepSetLastSeen(w, e.io)
    ELSE w

\* A whole call of `op` with nothing in between its steps: where it leaves
\* the repository and what it returns.
RunCall(hist, w, op, e) ==
    LET s(x) == Step(hist, x, e)
    IN  s(s(s(s(s(StepBegin(w, op))))))

\* Caller p's step took the world to w2.
Apply(p, w2) ==
    /\ last_seen' = w2.seen
    /\ origin_master' = w2.known
    /\ call' = [call EXCEPT ![p] = w2.c]
    /\ ret' = w2.ret
    /\ written' = IF call[p].op = "fetch_changes" /\ w2.c.pc = "idle" /\ w2.ret.ok
                  THEN [by |-> "fetch_changes", to |-> w2.seen.target]
                  ELSE written
    /\ UNCHANGED remote

CrateVersions == [name : Paths, vers : 1..MaxCommits]

Init ==
    /\ remote = <<>>
    /\ origin_master = 0
    /\ last_seen = Absent
    /\ call = [p \in Procs |-> IdleCall]
    /\ ret = NoRet
    /\ written = [by |-> "none", to |-> NoOid]
    /\ told = [count |-> [v \in CrateVersions |-> 0], upto |-> 0]
    /\ tos = {}
    /\ interleaved = FALSE
    /\ asked = NoAsk
    /\ first = NoFirst
    /\ disk = OpenedDisk
    /\ opened = NoIndex

(***************************************************************************)
(* The remote: a commit on master appends one line to one file.            *)
(***************************************************************************)
RemotePublish(path, kind) ==
    /\ Len(remote) < MaxCommits
    /\ LET n == Len(remote) + 1
           tip == IF remote = <<>> THEN EmptyTree ELSE remote[Len(remote)]
           line == IF kind = "record" THEN RecordLine(path, n) ELSE TextLine
       IN  remote' = Append(remote, AppendLine(tip, path, line))
    /\ UNCHANGED <<origin_master, last_seen, call, ret, written>>

(***************************************************************************)
(* The operations of Index.                                                *)
(***************************************************************************)
Idle(p) == call[p].pc = "idle"
OthersIdle(p) == \A q \in Procs \ {p} : Idle(q)

\* No call is in progress and the last returned value was taken.
AllIdle == ret = NoRet /\ \A q \in Procs : Idle(q)

\* peek_changes_with_options / fetch_changes_with_options is called.
Begin(p, op) ==
    /\ Idle(p)
    /\ ret = NoRet
    /\ Apply(p, StepBegin(World(p), op))

\* The caller takes what the operation returned.
TakeResult ==
    /\ ret # NoRet
    /\ ret' = NoRet
    /\ UNCHANGED <<remote, origin_master, last_seen, call, written>>

ReadLastSeen(p) ==
    /\ call[p].pc = "last_seen"
    /\ Apply(p, StepLastSeen(World(p)))

FetchOrigin(p, outcome) ==
    /\ call[p].pc = "fetch"
    /\ Apply(p, StepFetch(World(p), Len(remote), outcome))

ResolveTo(p) ==
    /\ call[p].pc = "refname_to_id"
    /\ Apply(p, StepRefnameToId(World(p)))

ComputeChanges(p, fault) ==
    /\ call[p].pc = "changes"
    /\ Apply(p, StepChanges(remote, World(p), fault))

Persist(p, io) ==
    /\ call[p].pc = "set_last_seen"
    /\ Apply(p, StepSetLastSeen(World(p), io))

\* A caller calls set_last_seen_reference(point) itself.
CallSetLastSeenReference(point, io) ==
    /\ AllIdle
    /\ LET r == set_last_seen_reference(last_seen, origin_master, point, io)
       IN  /\ last_seen' = r.seen
           /\ ret' = [NoRet EXCEPT !.op = "set_last_seen_reference", !.ok = r.ok,
                                   !.to = point, !.seen0 = last_seen,
                                   !.err = IF r.ok THEN "none" ELSE "set_last_seen"]
           /\ written' = IF r.ok THEN [by |-> "set_last_seen_reference", to |-> point]
                         ELSE written
    /\ UNCHANGED <<remote, origin_master, call>>

\* A caller calls changes(from, to).
CallChanges(from, to, fault) ==
    /\ AllIdle
    /\ LET r == changes(remote, last_seen, origin_master, from, to, fault)
       IN  ret' = [NoRet EXCEPT !.op = "changes", !.ok = r.ok, !.value = r.value,
                                !.err = r.err, !.seen0 = last_seen]
    /\ UNCHANGED <<remote, origin_master, last_seen, call, written>>

\* A caller calls changes_from_objects(from, to) with two objects it holds.
CallChangesFromObjects(from, to, fault) ==
    /\ AllIdle
    /\ ObjectExists(origin_master, from) /\ ObjectExists(origin_master, to)
    /\ LET r == changes_from_objects(remote, origin_master, from, to, fault)
       IN  ret' = [NoRet EXCEPT !.op = "changes_from_objects", !.ok = r.ok,
                                !.value = r.value, !.err = r.err,
                                !.seen0 = last_seen]
    /\ UNCHANGED <<remote, origin_master, last_seen, call, written>>

(***************************************************************************)
(* What the callers were told, kept beside the program's state.            *)
(***************************************************************************)
Occurrences(seq, x) == Cardinality({i \in DOMAIN seq : seq[i] = x})

\* The counts after `value` was returned; 2 stands for "more than once".
Counted(count, value) ==
    [v \in CrateVersions |->
        IF count[v] + Occurrences(value, v) >= 2 THEN 2
        ELSE count[v] + Occurrences(value, v)]

\* A peek/fetch call returned in this step.
Returned == \E p \in Procs : call[p].pc # "idle" /\ call'[p].pc = "idle"

TrackTold ==
    told' = IF Returned /\ ret'.ok /\ ret'.op = "fetch_changes"
            THEN [count |-> Counted(told.count, ret'.value),
                  upto |-> IF ret'.to.n > told.upto THEN ret'.to.n ELSE told.upto]
            ELSE told

TrackTos ==
    tos' = IF Returned /\ ret'.ok THEN tos \cup {ret'.to} ELSE tos

TrackInterleaved ==
    interleaved' =
        (interleaved \/ \E p \in Procs : Idle(p) /\ call'[p].pc # "idle" /\ ~OthersIdle(p))

\* The objects and the revisions a caller may name.
Commits == {Oid("commit", n) : n \in 1..MaxCommits}
Points == Commits \cup {EMPTY_TREE_HASH, Oid("blob", 1)}
Objects == Points \cup {Oid("tree", n) : n \in 1..MaxCommits}
Revs == Commits \cup {Rev(ORIGIN_MASTER), Rev(LAST_SEEN_REFNAME)}

FetchOutcomes == {"ok", "fail", "fail_late"}
DiffFaults == {"none", "diff", "print"}
ChangesFaults == DiffFaults \cup {"find_object"}
LineKinds == {"record", "text"}
Calls == {"peek_changes", "fetch_changes"}

Publishes == \E path \in Paths, kind \in LineKinds : RemotePublish(path, kind)
BeginsSerialized == \E p \in Procs, op \in Calls : OthersIdle(p) /\ Begin(p, op)
ReadsLastSeen == \E p \in Procs : ReadLastSeen(p)
Fetches == \E p \in Procs, outcome \in FetchOutcomes : FetchOrigin(p, outcome)
ResolvesTo == \E p \in Procs : ResolveTo(p)
ComputesChanges == \E p \in Procs, fault \in ChangesFaults : ComputeChanges(p, fault)
Persists == \E p \in Procs, io \in WriteIO : Persist(p, io)
SetsLastSeen == \E point \in Points, io \in WriteIO : CallSetLastSeenReference(point, io)
CallsChanges ==
    \E from \in Revs, to \in Revs, fault \in DiffFaults : CallChanges(from, to, fault)
CallsChangesFromObjects ==
    \E from \in Objects, to \in Objects, fault \in DiffFaults :
        CallChangesFromObjects(from, to, fault)

(***************************************************************************)
(* Spec: every operation of Index, the calls serialized (an operation      *)
(* begins only while no call is in progress), on a remote that grows.      *)
(***************************************************************************)
Book == UNCHANGED <<told, tos, interleaved, asked, first, disk, opened>>

Next ==
    \/ Publishes /\ Book
    \/ BeginsSerialized /\ Book
    \/ TakeResult /\ Book
    \/ ReadsLastSeen /\ Book
    \/ Fetches /\ Book
    \/ ResolvesTo /\ Book
    \/ ComputesChanges /\ Book
    \/ Persists /\ Book
    \/ SetsLastSeen /\ Book
    \/ CallsChanges /\ Book
    \/ CallsChangesFromObjects /\ Book

Spec == Init /\ [][Next]_vars

\* SpecTos: Spec, with the `to` of every successful peek/fetch call kept.
BookTos == TrackTos /\ UNCHANGED <<told, interleaved, asked, first, disk, opened>>

NextTos ==
    \/ Publishes /\ BookTos
    \/ BeginsSerialized /\ BookTos
    \/ TakeResult /\ BookTos
    \/ ReadsLastSeen /\ BookTos
    \/ Fetches /\ BookTos
    \/ ResolvesTo /\ BookTos
    \/ ComputesChanges /\ BookTos
    \/ Persists /\ BookTos
    \/ SetsLastSeen /\ BookTos
    \/ CallsChanges /\ BookTos
    \/ CallsChangesFromObjects /\ BookTos

SpecTos == Init /\ [][NextTos]_vars

\* SpecFetch: serialized peek_changes and fetch_changes calls and no other
\* writer of the last-seen reference, with what the calls returned kept.
BookTold == TrackTold /\ UNCHANGED <<tos, interleaved, asked, first, disk, opened>>

NextFetch ==
    \/ Publishes /\ BookTold
    \/ BeginsSerialized /\ BookTold
    \/ TakeResult /\ BookTold
    \/ ReadsLastSeen /\ BookTold
    \/ Fetches /\ BookTold
    \/ ResolvesTo /\ BookTold
    \/ ComputesChanges /\ BookTold
    \/ Persists /\ BookTold

SpecFetch == Init /\ [][NextFetch]_vars

\* SpecConc: fetch_changes calls of two callers, their steps interleaved in
\* any order, on a healthy engine.
BookConc == TrackTold /\ TrackInterleaved /\ UNCHANGED <<tos, asked, first, disk, opened>>

NextConc ==
    \/ RemotePublish("a", "record") /\ BookConc
    \/ (\E p \in Procs : Begin(p, "fetch_changes")) /\ BookConc
    \/ TakeResult /\ BookConc
    \/ ReadsLastSeen /\ BookConc
    \/ (\E p \in Procs : FetchOrigin(p, "ok")) /\ BookConc
    \/ ResolvesTo /\ BookConc
    \/ (\E p \in Procs : ComputeChanges(p, "none")) /\ BookConc
    \/ (\E p \in Procs : Persist(p, Healthy.io)) /\ BookConc

SpecConc == Init /\ [][NextConc]_vars

(***************************************************************************)
(* SpecDiff: changes and changes_from_objects on a repository that has     *)
(* fetched a history of two commits with any two trees.  The file at "a"   *)
(* is missing or holds up to MaxLines lines, records or not (fewer than    *)
(* MaxLines in the first commit); the file at "b" is missing or holds one  *)
(* line.                                                                   *)
(***************************************************************************)
MaxLines == 2

LinesOfA == {RecordLine("a", 1), RecordLine("a", 2), TextLine}
FilesOfA(max) == UNION {[1..n -> LinesOfA] : n \in 0..max}
FilesOfB == {<<RecordLine("b", 1)>>, <<JsonLine>>}

DiffTrees(max) ==
    {t \in UNION {[D -> FilesOfA(max) \cup FilesOfB] : D \in SUBSET Paths} :
        /\ "a" \in DOMAIN t => t["a"] \in FilesOfA(max)
        /\ "b" \in DOMAIN t => t["b"] \in FilesOfB}

InitDiff ==
    /\ \E old \in DiffTrees(MaxLines - 1), new \in DiffTrees(MaxLines) :
          remote = <<old, new>>
    /\ origin_master = 2
    /\ last_seen = Absent
    /\ call = [p \in Procs |-> IdleCall]
    /\ ret = NoRet
    /\ written = [by |-> "none", to |-> NoOid]
    /\ told = [count |-> [v \in CrateVersions |-> 0], upto |-> 0]
    /\ tos = {}
    /\ interleaved = FALSE
    /\ asked = NoAsk
    /\ first = NoFirst
    /\ disk = OpenedDisk
    /\ opened = NoIndex

\* The objects a caller of changes_from_objects holds.
DiffObjects ==
    {Oid("commit", 1), Oid("commit", 2), Oid("tree", 1), Oid("tree", 2),
     Oid("blob", 1)}

BookDiff == UNCHANGED <<told, tos, interleaved, first, disk, opened>>

NextDiff ==
    \/ \E from \in DiffObjects, to \in DiffObjects, fault \in DiffFaults :
          /\ CallChangesFromObjects(from, to, fault)
          /\ asked' = Ask(from, to, fault)
          /\ BookDiff
    \/ \E from \in Revs, to \in Revs :
          /\ CallChanges(from, to, "none")
          /\ asked' = Ask(from, to, "none")
          /\ BookDiff
    \/ TakeResult /\ asked' = NoAsk /\ BookDiff

SpecDiff == InitDiff /\ [][NextDiff]_vars

(***************************************************************************)
(* SpecIdem: calls of changes among the other operations of Index, the     *)
(* calls serialized and the engine not failing, with one earlier           *)
(* successful changes call remembered.                                     *)
(***************************************************************************)
\* changes(from, to) returned in this step: it is remembered, if none is
\* yet and `keep` says so.
Remember(from, to, keep) ==
    first' = IF keep /\ ~first.set /\ ret'.ok
             THEN [set |-> TRUE, from |-> from, to |-> to,
                   rfrom |-> revparse_single(last_seen, origin_master, from).obj,
                   rto |-> revparse_single(last_seen, origin_master, to).obj,
                   value |-> ret'.value, seen |-> last_seen]
             ELSE first

BookIdem == UNCHANGED <<told, tos, interleaved, asked, first, disk, opened>>

NextIdem ==
    \/ RemotePublish("a", "record") /\ BookIdem
    \/ BeginsSerialized /\ BookIdem
    \/ TakeResult /\ asked' = NoAsk
                  /\ UNCHANGED <<told, tos, interleaved, first, disk, opened>>
    \/ ReadsLastSeen /\ BookIdem
    \/ (\E p \in Procs : FetchOrigin(p, "ok")) /\ BookIdem
    \/ ResolvesTo /\ BookIdem
    \/ (\E p \in Procs : ComputeChanges(p, "none")) /\ BookIdem
    \/ (\E p \in Procs : Persist(p, Healthy.io)) /\ BookIdem
    \/ (\E point \in Points : CallSetLastSeenReference(point, Healthy.io)) /\ BookIdem
    \/ \E from \in Revs, to \in Revs, keep \in BOOLEAN :
          /\ CallChanges(from, to, "none")
          /\ asked' = Ask(from, to, "none")
          /\ Remember(from, to, keep)
          /\ UNCHANGED <<told, tos, interleaved, disk, opened>>

SpecIdem == Init /\ [][NextIdem]_vars

(***************************************************************************)
(* SpecOpen: from_path_or_cloned_with_options on the paths of a disk that  *)
(* holds any repositories.                                                 *)
(***************************************************************************)
InitOpen ==
    /\ remote = <<>>
    /\ origin_master = 0
    /\ last_seen = Absent
    /\ call = [p \in Procs |-> IdleCall]
    /\ ret = NoRet
    /\ written = [by |-> "none", to |-> NoOid]
    /\ told = [count |-> [v \in CrateVersions |-> 0], upto |-> 0]
    /\ tos = {}
    /\ interleaved = FALSE
    /\ asked = NoAsk
    /\ first = NoFirst
    /\ disk \in [DiskPaths -> DiskStates]
    /\ opened = NoIndex

\* from_path_or_cloned_with_options(path, CloneOptions { repository_url }).
OpenIndex(path, repository_url, io) ==
    /\ opened = NoIndex
    /\ LET r == from_path_or_cloned_with_options(disk[path], repository_url, io)
       IN  /\ opened' = [path |-> path, url |-> repository_url, io |-> io,
                         before |-> disk[path], ok |-> r.ok, err |-> r.err,
                         cloned |-> r.cloned]
           /\ disk' = [disk EXCEPT ![path] = r.disk]
    /\ UNCHANGED <<remote, origin_master, last_seen, call, ret, written, told,
                   tos, interleaved, asked, first>>

\* The caller takes the Index or the error.
TakeIndex ==
    /\ opened # NoIndex
    /\ opened' = NoIndex
    /\ UNCHANGED <<remote, origin_master, last_seen, call, ret, written, told,
                   tos, interleaved, asked, first, disk>>

NextOpen ==
    \/ \E path \in DiskPaths, url \in Urls, io \in OpenIO : OpenIndex(path, url, io)
    \/ TakeIndex

SpecOpen == InitOpen /\ [][NextOpen]_vars

(***************************************************************************)
(* SpecRef: serialized peek_changes and fetch_changes calls on an engine   *)
(* that does not fail, while between the calls something else than Index   *)
(* makes the last-seen reference symbolic, or unreadable and readable      *)
(* again.                                                                  *)
(***************************************************************************)
\* The reference is made a symbolic reference (git symbolic-ref).
MakeSymbolic ==
    /\ AllIdle
    /\ last_seen.state \in {"absent", "direct"}
    /\ last_seen' = Symbolic
    /\ UNCHANGED <<remote, origin_master, call, ret, written>>

\* The reference can no longer be read: find_reference fails although the
\* reference is there.
BecomeUnreadable ==
    /\ AllIdle
    /\ last_seen.state = "direct"
    /\ last_seen' = Unreadable(last_seen.target)
    /\ UNCHANGED <<remote, origin_master, call, ret, written>>

\* The reference can be read again.
BecomeReadable ==
    /\ AllIdle
    /\ last_seen.state = "unreadable"
    /\ last_seen' = Direct(last_seen.target)
    /\ UNCHANGED <<remote, origin_master, call, ret, written>>

BookRef == UNCHANGED <<told, tos, interleaved, asked, first, disk, opened>>

NextRef ==
    \/ Publishes /\ BookRef
    \/ BeginsSerialized /\ BookRef
    \/ TakeResult /\ BookRef
    \/ ReadsLastSeen /\ BookRef
    \/ (\E p \in Procs : FetchOrigin(p, "ok")) /\ BookRef
    \/ ResolvesTo /\ BookRef
    \/ (\E p \in Procs : ComputeChanges(p, "none")) /\ BookRef
    \/ (\E p \in Procs : Persist(p, Healthy.io)) /\ BookRef
    \/ MakeSymbolic /\ BookRef
    \/ BecomeUnreadable /\ BookRef
    \/ BecomeReadable /\ BookRef

SpecRef == Init /\ [][NextRef]_vars

(***************************************************************************)
(* Properties.                                                             *)
(***************************************************************************)
\* The tree the last-seen reference stands for: the tree of the commit it
\* points to, the empty tree while it is missing.
SeenTree ==
    IF last_seen.state = "direct" /\ last_seen.target.kind = "commit"
    THEN remote[last_seen.target.n]
    ELSE EmptyTree

\* How many lines of `tree` are the text of CrateVersion v.
RecordsIn(tree, v) ==
    Cardinality({<<q, i>> \in Paths \X (1..MaxCommits) :
                    /\ q \in DOMAIN tree
                    /\ i \in DOMAIN tree[q]
                    /\ from_slice(tree[q][i]).ok
                    /\ from_slice(tree[q][i]).value = v})

\* Caller p is in a call that has read its `from`.
HasRead(p) == call[p].pc # "idle" /\ Len(call[p].trace) >= 1

\* C1: in serialized peek/fetch calls with no other writer of the reference,
\* against a remote that only appends lines, every call's `from` is the `to`
\* the last successful fetch_changes persisted (the empty tree before the
\* first), and every parseable line of the remote up to the persisted point
\* was returned by exactly one successful fetch_changes: none twice, none
\* skipped.
C1_GapFreeNonOverlapping ==
    /\ \A v \in CrateVersions :
          /\ told.count[v] = RecordsIn(SeenTree, v)
          /\ told.count[v] <= 1
    /\ \A p \in Procs :
          HasRead(p) =>
             call[p].from = IF written.by = "fetch_changes" THEN written.to
                            ELSE EMPTY_TREE_HASH

\* Two successful fetch_changes calls, the second returning exactly the one
\* record published after the first.
C1_Witness ==
    /\ ret.op = "fetch_changes" /\ ret.ok
    /\ ret.seen0 = Direct(Oid("commit", 1))
    /\ ret.to = Oid("commit", 2)
    /\ Len(ret.value) = 1
    /\ \E v, u \in CrateVersions :
          v.vers = 1 /\ u.vers = 2 /\ told.count[v] = 1 /\ told.count[u] = 1

\* C2: when a fetch_changes call has returned successfully the last-seen
\* reference points to the `to` that call resolved, the commit its fetch left
\* refs/remotes/origin/master at; and a peek_changes that reads the reference
\* with no write in between has exactly that `to` as its `from`.
C2_CheckpointIsTo ==
    /\ (ret.op = "fetch_changes" /\ ret.ok) =>
          /\ last_seen = Direct(ret.to)
          /\ ret.to = Oid("commit", origin_master)
    /\ \A p \in Procs :
          (written.by = "fetch_changes" /\ call[p].op = "peek_changes" /\ HasRead(p))
             => call[p].from = written.to

\* A peek_changes that read the `to` of an earlier fetch_changes as its
\* `from`, with a later commit to report.
C2_Witness ==
    \E p \in Procs :
        /\ written = [by |-> "fetch_changes", to |-> Oid("commit", 1)]
        /\ call[p].op = "peek_changes"
        /\ call[p].from = Oid("commit", 1)
        /\ call[p].to = Oid("commit", 2)

\* C3: peek_changes, changes and changes_from_objects leave the last-seen
\* reference as it was when they were called, whatever they return and at
\* every step of a peek_changes call.
C3_NonMutating ==
    /\ ret.op \in {"peek_changes", "changes", "changes_from_objects"}
          => last_seen = ret.seen0
    /\ \A p \in Procs : call[p].op = "peek_changes" => last_seen = call[p].seen0

\* A peek_changes that returned new records and left the reference behind
\* the `to` it resolved.
C3_Witness ==
    /\ ret.op = "peek_changes" /\ ret.ok /\ ret.value # <<>>
    /\ last_seen = Direct(Oid("commit", 1))
    /\ ret.to = Oid("commit", 2)

\* The errors a step can end a call with.
ErrorsOf(step) ==
    IF step = "fetch" THEN {"fetch"}
    ELSE IF step = "refname_to_id" THEN {"refname_to_id"}
    ELSE IF step = "changes" THEN {"find_object", "find_tree", "diff", "print"}
    ELSE IF step = "set_last_seen" THEN {"set_last_seen"}
    ELSE {}

NoRepeat(seq) == \A i, j \in DOMAIN seq : seq[i] = seq[j] => i = j
IsPrefix(seq, of) == Len(seq) <= Len(of) /\ \A i \in DOMAIN seq : seq[i] = of[i]

\* C4: a fetch_changes call that fails returns the error of the step that
\* failed and no records, has taken every step at most once and in order up
\* to that step, and leaves the last-seen reference as it was when the call
\* began.
C4_FailureKeepsCheckpoint ==
    (ret.op = "fetch_changes" /\ ~ret.ok) =>
        /\ ret.value = <<>> /\ ret.to = NoOid
        /\ last_seen = ret.seen0
        /\ ret.trace # <<>>
        /\ NoRepeat(ret.trace) /\ IsPrefix(ret.trace, FetchSteps)
        /\ ret.err \in ErrorsOf(ret.trace[Len(ret.trace)])

\* A fetch_changes call that failed at the write of the reference, after its
\* diff had succeeded, with the reference present before the call.
C4_Witness ==
    /\ ret.op = "fetch_changes" /\ ~ret.ok /\ ret.err = "set_last_seen"
    /\ ret.seen0 = Direct(Oid("commit", 1))
    /\ last_seen = Direct(Oid("commit", 1))
    /\ origin_master = 2

\* C5 as stated: whenever the last-seen reference exists it points to the
\* `to` of a peek_changes or fetch_changes call that returned successfully.
C5_Original ==
    last_seen.state = "direct" => last_seen.target \in tos

\* C5: whenever the last-seen reference exists it points to what its last
\* successful writer gave it: the `to` of a fetch_changes call that returned
\* successfully, or the Oid a caller passed to a successful
\* set_last_seen_reference.
C5_CheckpointIsWrittenPoint ==
    last_seen.state = "direct" =>
        /\ written.by \in {"fetch_changes", "set_last_seen_reference"}
        /\ written.to = last_seen.target
        /\ written.by = "fetch_changes" => last_seen.target \in tos

\* The reference was set by a caller to a commit no call has reported up to,
\* after a fetch_changes had persisted its `to`.
C5_Witness ==
    /\ last_seen = Direct(Oid("commit", 1))
    /\ written.by = "set_last_seen_reference"
    /\ Oid("commit", 2) \in tos
    /\ Oid("commit", 1) \notin tos

\* C6: in interleaved fetch_changes calls a record is returned by two calls,
\* or the reference ends behind a commit a call already reported up to, only
\* if a call began while another was in progress; both happen when calls
\* interleave.
C6_RaceOnlyWhenInterleaved ==
    (\/ \E v \in CrateVersions : told.count[v] = 2
     \/ /\ last_seen.state = "direct"
        /\ last_seen.target.kind = "commit"
        /\ last_seen.target.n < told.upto)
        => interleaved

\* Both calls have returned: the record of commit 1 was returned twice, and
\* the call that resolved commit 1 persisted after the one that resolved
\* commit 2.
C6_Witness ==
    /\ \A p \in Procs : Idle(p)
    /\ interleaved
    /\ \E v \in CrateVersions : v.vers = 1 /\ told.count[v] = 2
    /\ told.upto = 2
    /\ last_seen = Direct(Oid("commit", 1))
    /\ ret.op = "fetch_changes" /\ ret.ok /\ ret.to = Oid("commit", 1)
    /\ ret.seen0 = Absent

\* The order of the steps of one fetch_changes call.
C7_Order == <<"last_seen", "fetch", "refname_to_id", "changes", "set_last_seen">>

\* The steps `trace` has taken include `step`.
Took(trace, step) == \E i \in DOMAIN trace : trace[i] = step

\* C7: at every point of a fetch_changes call the steps taken so far are the
\* first steps of the order read `from`, fetch, resolve `to`, diff, write, each
\* once, and the call is at the next one; `from` is what the reference held
\* when the call began; `to`, once resolved, is the commit the call's own
\* fetch brought origin/master to; records are held only after the diff; and
\* the reference is as it was when the call began until the call returns,
\* changed only by a call that returns successfully after all five steps.
C7_FixedStepOrder ==
    /\ \A p \in Procs :
          (call[p].op = "fetch_changes" /\ ~Idle(p)) =>
             LET c == call[p]
             IN  /\ IsPrefix(c.trace, C7_Order)
                 /\ Len(c.trace) < Len(C7_Order)
                 /\ c.pc = C7_Order[Len(c.trace) + 1]
                 /\ last_seen = c.seen0
                 /\ Took(c.trace, "last_seen") => c.from = PeekFrom(c.seen0)
                 /\ c.to # NoOid <=> Took(c.trace, "refname_to_id")
                 /\ c.to # NoOid =>
                       /\ Took(c.trace, "fetch")
                       /\ c.fetched >= 1
                       /\ c.to = Oid("commit", c.fetched)
                 /\ c.changes # <<>> => Took(c.trace, "changes")
    /\ ret.op = "fetch_changes" =>
          /\ IsPrefix(ret.trace, C7_Order)
          /\ ret.ok => ret.trace = C7_Order
          /\ last_seen # ret.seen0 => ret.ok /\ last_seen = Direct(ret.to)

\* A fetch_changes call at its last step: the reference still holds commit 1
\* while the call has fetched and resolved commit 2 and holds the diff's
\* records.
C7_Witness ==
    \E p \in Procs :
        /\ call[p].op = "fetch_changes"
        /\ call[p].pc = "set_last_seen"
        /\ call[p].changes # <<>>
        /\ call[p].from = Oid("commit", 1)
        /\ call[p].to = Oid("commit", 2)
        /\ last_seen = Direct(Oid("commit", 1))

\* The CrateVersions of the parseable lines of one file, in line order.
RECURSIVE RecordsOfLines(_)
RecordsOfLines(lines) ==
    IF lines = <<>> THEN <<>>
    ELSE (IF Head(lines).kind = "record"
          THEN <<[name |-> Head(lines).name, vers |-> Head(lines).vers]>>
          ELSE <<>>) \o RecordsOfLines(Tail(lines))

\* The CrateVersions of every parseable line of a tree, file by file.
RECURSIVE AllRecordsFrom(_, _)
AllRecordsFrom(tree, i) ==
    IF i > Len(PathOrder) THEN <<>>
    ELSE (IF PathOrder[i] \in DOMAIN tree THEN RecordsOfLines(tree[PathOrder[i]])
          ELSE <<>>) \o AllRecordsFrom(tree, i + 1)

\* C8: a peek_changes or fetch_changes call that began with no last-seen
\* reference reads the empty tree as its `from` and never fails at that read;
\* with nothing failing in the engine its diff succeeds, and when the call
\* returns successfully it returns the CrateVersion of every parseable line
\* of the tree of `to`.  With no other writer, the reference is missing
\* exactly until the first fetch_changes returns successfully, and every
\* successful fetch_changes leaves it at its `to`.
C8_AbsentMeansEmptyTree ==
    /\ \A p \in Procs :
          (~Idle(p) /\ call[p].seen0 = Absent) =>
             /\ HasRead(p) => call[p].from = EMPTY_TREE_HASH
             /\ call[p].pc = "changes" =>
                   StepChanges(remote, World(p), "none").c.pc # "idle"
                      \/ StepChanges(remote, World(p), "none").ret.ok
    /\ (ret.op \in Calls /\ ~ret.ok) => ret.trace # <<"last_seen">>
    /\ (ret.op \in Calls /\ ret.ok /\ ret.seen0 = Absent) =>
          ret.value = AllRecordsFrom(remote[ret.to.n], 1)
    /\ last_seen = Absent <=> told.upto = 0
    /\ (ret.op = "fetch_changes" /\ ret.ok) => last_seen = Direct(ret.to)

\* The first successful fetch_changes, begun with no reference: it returned
\* the records of both commits of the remote and created the reference.
C8_Witness ==
    /\ ret.op = "fetch_changes" /\ ret.ok
    /\ ret.seen0 = Absent
    /\ Len(ret.value) = 2
    /\ last_seen = Direct(Oid("commit", 2))

\* C9: from every state (reference missing, or present with any target) a
\* set_last_seen_reference(point) for a point the repository holds succeeds
\* whenever the engine's write goes through, and then the reference exists
\* and points to `point`; a call that returned successfully left it at its
\* point, a failed one left it as it was.
C9_SetLastSeenReference ==
    /\ \A point \in Points, io \in WriteIO :
          LET r == set_last_seen_reference(last_seen, origin_master, point, io)
          IN  /\ (ObjectExists(origin_master, point) /\ io.reference) => r.ok
              /\ r.ok => r.seen = Direct(point)
              /\ ~r.ok => r.seen = last_seen
    /\ ret.op = "set_last_seen_reference" =>
          /\ ret.ok => last_seen = Direct(ret.to)
          /\ ~ret.ok => last_seen = ret.seen0

\* set_last_seen_reference moved an existing reference back from commit 2 to
\* commit 1.
C9_Witness ==
    /\ ret.op = "set_last_seen_reference" /\ ret.ok
    /\ ret.seen0 = Direct(Oid("commit", 2))
    /\ ret.to = Oid("commit", 1)
    /\ last_seen = Direct(Oid("commit", 1))

\* The repository as a call finds it, with `seen` as the last-seen reference
\* and `known` as origin/master.
Start(seen, known) == [seen |-> seen, known |-> known, c |-> IdleCall, ret |-> NoRet]

\* peek_changes from `w0` and, when it returned successfully,
\* set_last_seen_reference of the `to` it returned: what peek_changes returned,
\* whether both succeeded, and the last-seen reference afterwards.
PeekThenSet(hist, w0, e) ==
    LET pk == RunCall(hist, w0, "peek_changes", e)
        st == set_last_seen_reference(pk.seen, pk.known, pk.ret.to, e.io)
    IN  [peek |-> pk.ret,
         ok |-> pk.ret.ok /\ st.ok,
         seen |-> IF pk.ret.ok THEN st.seen ELSE pk.seen,
         known |-> pk.known]

\* C10: from every state in which no call is in progress, against the same
\* remote and with the engine behaving the same, fetch_changes succeeds
\* exactly when peek_changes followed by set_last_seen_reference(to) both
\* succeed, it then returns the same records and the same `to`, and in every
\* case both leave the last-seen reference and origin/master the same; and a
\* fetch_changes call that has returned successfully returned and persisted
\* what peek_changes and set_last_seen_reference(to) would have from where
\* it began.
C10_FetchIsPeekThenSet ==
    /\ AllIdle =>
          \A e \in Engines :
             LET f == RunCall(remote, Start(last_seen, origin_master),
                              "fetch_changes", e)
                 ps == PeekThenSet(remote, Start(last_seen, origin_master), e)
             IN  /\ f.ret.ok <=> ps.ok
                 /\ f.ret.ok => /\ f.ret.value = ps.peek.value
                                /\ f.ret.to = ps.peek.to
                 /\ f.seen = ps.seen
                 /\ f.known = ps.known
    /\ (ret.op = "fetch_changes" /\ ret.ok) =>
          LET ps == PeekThenSet(SubSeq(remote, 1, ret.to.n),
                                Start(ret.seen0, ret.to.n), Healthy)
          IN  /\ ps.ok
              /\ ps.peek.value = ret.value
              /\ ps.peek.to = ret.to
              /\ ps.seen = last_seen

\* A fetch_changes call that began at commit 1 returned the record of commit
\* 2 and moved the reference there.
C10_Witness ==
    /\ ret.op = "fetch_changes" /\ ret.ok
    /\ ret.seen0 = Direct(Oid("commit", 1))
    /\ ret.to = Oid("commit", 2)
    /\ Len(ret.value) = 1
    /\ last_seen = Direct(Oid("commit", 2))

(***************************************************************************)
(* Properties of changes and changes_from_objects (SpecDiff).              *)
(***************************************************************************)
\* The tree a commit or a tree of the repository stands for.
TreeOf(obj) == IF obj.n = 0 THEN EmptyTree ELSE remote[obj.n]

\* A changes_from_objects call on two commits or trees has returned Ok.
DiffReturned ==
    /\ ret.op = "changes_from_objects" /\ ret.ok
    /\ asked.from.kind \in {"commit", "tree"} /\ asked.to.kind \in {"commit", "tree"}

\* The lines of the patch between the two trees of the call that returned.
AskedPatch == Patch(diff_tree_to_tree(TreeOf(asked.from), TreeOf(asked.to)))

\* An added line of an added or modified delta.
Eligible(line) == line.origin = "+" /\ line.status \in {"Added", "Modified"}

\* The eligible lines of a patch, in order.
RECURSIVE EligibleLines(_)
EligibleLines(patch) ==
    IF patch = <<>> THEN <<>>
    ELSE (IF Eligible(Head(patch)) THEN <<Head(patch)>> ELSE <<>>)
         \o EligibleLines(Tail(patch))

\* The lines of `lines` that are the text of a record, in order.
RECURSIVE RecordLinesOf(_)
RecordLinesOf(lines) ==
    IF lines = <<>> THEN <<>>
    ELSE (IF Head(lines).content.kind = "record" THEN <<Head(lines)>> ELSE <<>>)
         \o RecordLinesOf(Tail(lines))

\* The lines a patch can hand to the callback: every origin and every
\* status of a delta, with a record or something else as content.
CallbackLines ==
    [origin : {"+", "-", " ", "=", ">", "<", "F", "H", "B"},
     status : {"Unmodified", "Added", "Deleted", "Modified", "Renamed", "Copied",
               "Ignored", "Untracked", "Typechange", "Unreadable", "Conflicted"},
     path : {"a"},
     content : {RecordLine("a", 1), JsonLine, TextLine}]

\* (What does not depend on the call that returned is stated of the states
\* in which no result is pending, one for each repository.)
\* C11: the records changes_from_objects returns are, one for one and in
\* order, the parseable contents of the added lines of the added and modified
\* deltas of the patch; a path missing from the `to` tree gives none; a line
\* that is not an added line of an added or modified delta leaves the result
\* as it is whatever its content; and one record appended to a file of one
\* record returns exactly the appended record.
C11_OnlyAddedLines ==
    /\ DiffReturned =>
          LET took == RecordLinesOf(EligibleLines(AskedPatch))
          IN  /\ Len(ret.value) = Len(took)
              /\ \A i \in DOMAIN took :
                    /\ ret.value[i].name = took[i].content.name
                    /\ ret.value[i].vers = took[i].content.vers
                    /\ took[i].path \in DOMAIN TreeOf(asked.to)
                    /\ \E k \in DOMAIN TreeOf(asked.to)[took[i].path] :
                          TreeOf(asked.to)[took[i].path][k] = took[i].content
    /\ ret = NoRet =>
          \A line \in CallbackLines, v \in CrateVersions :
             ~Eligible(line) => PrintCallback(<<v>>, line) = <<v>>
    /\ (/\ DiffReturned
        /\ asked.from = Oid("commit", 1) /\ asked.to = Oid("commit", 2)
        /\ "a" \in DOMAIN remote[1] /\ "a" \in DOMAIN remote[2]
        /\ remote[1]["a"] = <<RecordLine("a", 1)>>
        /\ remote[2]["a"] = <<RecordLine("a", 1), RecordLine("a", 2)>>
        /\ "b" \notin DOMAIN remote[2])
          => ret.value = <<[name |-> "a", vers |-> 2]>>

\* changes_from_objects returned exactly the record appended to "a" while
\* "b", which held a record, was deleted.
C11_Witness ==
    /\ DiffReturned
    /\ asked.from = Oid("commit", 1) /\ asked.to = Oid("commit", 2)
    /\ remote[1] = [q \in {"a", "b"} |->
                       IF q = "a" THEN <<RecordLine("a", 1)>>
                       ELSE <<RecordLine("b", 1)>>]
    /\ remote[2] = [q \in {"a"} |-> <<RecordLine("a", 1), RecordLine("a", 2)>>]
    /\ ret.value = <<[name |-> "a", vers |-> 2]>>

\* The lines of the file at `path` in `tree`, none when the path is missing.
LinesAt(tree, path) == IF path \in DOMAIN tree THEN tree[path] ELSE <<>>

\* The records of `value` that belong to the file at `path`.
RecordsNamed(value, path) ==
    LET T(v) == v.name = path
    IN  SelectSeq(value, T)

\* C12: on two commits or trees changes_from_objects fails exactly when
\* diff_tree_to_tree or diff.print fails, and then with that error and no
\* records; a line that does not parse changes neither that nor the other
\* records: for every file that was created or appended to, every appended
\* line that parses is returned, in order, whatever unparseable lines stand
\* before or after it in this file or in others.
C12_BadLinesAreSkipped ==
    /\ (/\ ret.op = "changes_from_objects"
        /\ asked.from.kind \in {"commit", "tree"}
        /\ asked.to.kind \in {"commit", "tree"}) =>
          /\ ret.ok <=> asked.fault = "none"
          /\ ~ret.ok => ret.err = asked.fault /\ ret.value = <<>>
    /\ DiffReturned =>
          \A path \in DOMAIN TreeOf(asked.to) :
             LET old == LinesAt(TreeOf(asked.from), path)
                 new == TreeOf(asked.to)[path]
             IN  IsPrefix(old, new) =>
                    RecordsNamed(ret.value, path)
                       = RecordsOfLines(SubSeq(new, Len(old) + 1, Len(new)))

\* The patch held an added line that is no JSON, then an added record, then,
\* in another file, an added JSON line that is no record: exactly the record
\* was returned.
C12_Witness ==
    /\ DiffReturned
    /\ asked.from = Oid("commit", 1) /\ asked.to = Oid("commit", 2)
    /\ remote[1] = EmptyTree
    /\ remote[2] = [q \in {"a", "b"} |->
                       IF q = "a" THEN <<TextLine, RecordLine("a", 1)>>
                       ELSE <<JsonLine>>]
    /\ ret.value = <<[name |-> "a", vers |-> 1]>>

\* The object a revision given to changes names in this repository.
Resolved(rev) ==
    IF rev.kind = ORIGIN_MASTER THEN Oid("commit", origin_master) ELSE rev

\* A changes call has returned Ok for a `from` that is `to` or an ancestor
\* of it.
ChangesReturned ==
    /\ ret.op = "changes" /\ ret.ok
    /\ Resolved(asked.from).kind = "commit" /\ Resolved(asked.to).kind = "commit"
    /\ Resolved(asked.from).n <= Resolved(asked.to).n

\* The patch between the commits of the changes call that returned.
ChangesPatch ==
    Patch(diff_tree_to_tree(TreeOf(Resolved(asked.from)), TreeOf(Resolved(asked.to))))

\* C13 as stated: changes(from, to) returns as many records as the patch
\* has added lines in added and modified deltas.
C13_Original ==
    ChangesReturned =>
        Len(ret.value)
           = Cardinality({i \in DOMAIN ChangesPatch : Eligible(ChangesPatch[i])})

\* C13: for `from` an ancestor of `to`, changes(from, to) returns as many
\* records as the patch has added lines in added and modified deltas whose
\* content parses as a CrateVersion: never more than the added lines, and
\* as many exactly when all of them parse.
C13_CountOfParsedAddedLines ==
    ChangesReturned =>
        LET added == {i \in DOMAIN ChangesPatch : Eligible(ChangesPatch[i])}
            parsed == {i \in added : from_slice(ChangesPatch[i].content).ok}
        IN  /\ Len(ret.value) = Cardinality(parsed)
            /\ Len(ret.value) <= Cardinality(added)
            /\ Len(ret.value) = Cardinality(added) <=> parsed = added

\* changes(commit 1, commit 2) returned one record for a patch of three
\* added lines, two of which do not parse.
C13_Witness ==
    /\ ChangesReturned
    /\ asked.from = Oid("commit", 1) /\ asked.to = Oid("commit", 2)
    /\ Len(ret.value) = 1
    /\ Cardinality({i \in DOMAIN ChangesPatch : Eligible(ChangesPatch[i])}) = 3

\* Whether `s` is `t` with some of its elements left out.
RECURSIVE IsSubsequence(_, _)
IsSubsequence(s, t) ==
    IF s = <<>> THEN TRUE
    ELSE IF t = <<>> THEN FALSE
    ELSE IF Head(s) = Head(t) THEN IsSubsequence(Tail(s), Tail(t))
    ELSE IsSubsequence(s, Tail(t))

\* The position of `path` in the order git lists paths in.
PathIndex(path) == CHOOSE i \in DOMAIN PathOrder : PathOrder[i] = path

\* C14: the records changes_from_objects returns are in path order and, for
\* one path, in the order of the lines of the file in the `to` tree (not
\* sorted by version), and a file that was added gives one record for each
\* of its parseable lines, equal lines included.
C14_EnumerationOrder ==
    DiffReturned =>
        /\ \A i, j \in DOMAIN ret.value :
              i < j => PathIndex(ret.value[i].name) <= PathIndex(ret.value[j].name)
        /\ \A path \in Paths :
              IsSubsequence(RecordsNamed(ret.value, path),
                            RecordsOfLines(LinesAt(TreeOf(asked.to), path)))
        /\ \A path \in DOMAIN TreeOf(asked.to) \ DOMAIN TreeOf(asked.from) :
              Len(RecordsNamed(ret.value, path))
                 = Len(RecordsOfLines(TreeOf(asked.to)[path]))

\* Two added files, the first with the same record line twice: the record
\* was returned twice, before the record of the second file.
C14_Witness ==
    /\ DiffReturned
    /\ asked.from = Oid("tree", 1) /\ asked.to = Oid("tree", 2)
    /\ remote[1] = EmptyTree
    /\ remote[2] = [q \in {"a", "b"} |->
                       IF q = "a" THEN <<RecordLine("a", 2), RecordLine("a", 2)>>
                       ELSE <<RecordLine("b", 1)>>]
    /\ ret.value = <<[name |-> "a", vers |-> 2], [name |-> "a", vers |-> 2],
                     [name |-> "b", vers |-> 1]>>

\* C15: changes_from_objects on two snapshots (commits or trees) that are
\* the same snapshot (one object twice, a commit and its tree, or two commits
\* with equal trees) succeeds when the engine does not fail and returns no
\* record; so does changes on one commit twice.
C15_EqualSnapshotsGiveNothing ==
    /\ (/\ ret.op = "changes_from_objects"
        /\ asked.from.kind \in {"commit", "tree"}
        /\ asked.to.kind \in {"commit", "tree"}
        /\ TreeOf(asked.from) = TreeOf(asked.to)
        /\ asked.fault = "none") =>
          ret.ok /\ ret.value = <<>>
    /\ (/\ ret.op = "changes"
        /\ asked.from \in Commits /\ asked.from = asked.to
        /\ ObjectExists(origin_master, asked.from)) =>
          ret.ok /\ ret.value = <<>>

\* changes_from_objects on a commit with itself, its tree holding records in
\* two files, returned Ok and nothing.
C15_Witness ==
    /\ ret.op = "changes_from_objects" /\ ret.ok /\ ret.value = <<>>
    /\ asked.from = Oid("commit", 2) /\ asked.to = Oid("commit", 2)
    /\ remote[2] = [q \in {"a", "b"} |->
                       IF q = "a" THEN <<RecordLine("a", 1), RecordLine("a", 2)>>
                       ELSE <<RecordLine("b", 1)>>]

\* The id into_tree looks up for a commit or a tree: the commit's tree, the
\* tree itself.
TreeIdOf(obj) == IF obj.kind = "commit" THEN Oid("tree", obj.n) ELSE obj

\* C18: changes_from_objects gives for a commit on either side what it gives
\* for that commit's tree, so a commit against its own tree gives Ok and no
\* record; with an object that is neither commit nor tree on a side it
\* returns the error of find_tree and no records, whether or not the diff or
\* the rendering would have failed.
C18_IntoTree ==
    /\ ret = NoRet =>
          \A from \in DiffObjects, to \in DiffObjects, fault \in DiffFaults :
             changes_from_objects(remote, origin_master, from, to, fault)
                = changes_from_objects(remote, origin_master,
                                       TreeIdOf(from), TreeIdOf(to), fault)
    /\ ret.op = "changes_from_objects" =>
          /\ (/\ asked.from.kind = "commit" /\ asked.to = TreeIdOf(asked.from)
              /\ asked.fault = "none") => ret.ok /\ ret.value = <<>>
          /\ (/\ asked.to.kind = "commit" /\ asked.from = TreeIdOf(asked.to)
              /\ asked.fault = "none") => ret.ok /\ ret.value = <<>>
          /\ (asked.from.kind = "blob" \/ asked.to.kind = "blob") =>
                ~ret.ok /\ ret.err = "find_tree" /\ ret.value = <<>>

\* changes_from_objects on a blob and a commit returned the error of
\* find_tree although diff_tree_to_tree would have failed too.
C18_Witness ==
    /\ ret.op = "changes_from_objects" /\ ~ret.ok /\ ret.err = "find_tree"
    /\ asked = Ask(Oid("blob", 1), Oid("commit", 2), "diff")
    /\ remote[2] # EmptyTree

\* The file `new` is the file `old` with the line at position k replaced by
\* a different one.
ReplacedAt(old, new, k) ==
    /\ Len(old) = Len(new)
    /\ k \in DOMAIN old
    /\ old[k] # new[k]
    /\ \A i \in DOMAIN old \ {k} : old[i] = new[i]

\* C20: when one line of a file was replaced in place between the two
\* trees, changes_from_objects returns for that file the new line's record,
\* if the new line parses, and nothing else: never the record of the line
\* that was replaced.
C20_ReplacedLineIsReported ==
    DiffReturned =>
        \A path \in DOMAIN TreeOf(asked.from) \cap DOMAIN TreeOf(asked.to) :
           LET old == TreeOf(asked.from)[path]
               new == TreeOf(asked.to)[path]
           IN  \A k \in DOMAIN old :
                  ReplacedAt(old, new, k) =>
                     /\ RecordsNamed(ret.value, path) = RecordsOfLines(<<new[k]>>)
                     /\ from_slice(old[k]).ok =>
                           \A i \in DOMAIN ret.value :
                              ret.value[i] # from_slice(old[k]).value

\* The one record of "a" was replaced by another: the new one was returned.
C20_Witness ==
    /\ DiffReturned
    /\ asked.from = Oid("commit", 1) /\ asked.to = Oid("commit", 2)
    /\ remote[1] = [q \in {"a"} |-> <<RecordLine("a", 1)>>]
    /\ remote[2] = [q \in {"a"} |-> <<RecordLine("a", 2)>>]
    /\ ret.value = <<[name |-> "a", vers |-> 2]>>

(***************************************************************************)
(* Properties of repeated changes calls (SpecIdem).                        *)
(***************************************************************************)
\* A changes call has returned Ok with the arguments of the remembered one.
Repeated ==
    /\ ret.op = "changes" /\ ret.ok
    /\ first.set
    /\ asked.from = first.from /\ asked.to = first.to

\* C16 as stated: a successful changes call returns what an earlier
\* successful changes call with the same two arguments returned, whatever
\* ran between them.
C16_Original == Repeated => ret.value = first.value

\* C16: a successful changes call returns what an earlier successful call
\* with the same two arguments returned, whatever ran between them, when the
\* arguments are ids of commits, and, when they are names of references,
\* whenever the references point where they pointed at the earlier call.
C16_SameObjectsSameRecords ==
    /\ (Repeated /\ asked.from \in Commits /\ asked.to \in Commits)
          => ret.value = first.value
    /\ (/\ Repeated
        /\ revparse_single(last_seen, origin_master, asked.from).obj = first.rfrom
        /\ revparse_single(last_seen, origin_master, asked.to).obj = first.rto)
          => ret.value = first.value

\* changes(commit 1, commit 2) returned the record of commit 2 again after a
\* fetch_changes had created the last-seen reference in between.
C16_Witness ==
    /\ Repeated
    /\ asked.from = Oid("commit", 1) /\ asked.to = Oid("commit", 2)
    /\ ret.value = <<[name |-> "a", vers |-> 2]>>
    /\ first.seen = Absent
    /\ last_seen = Direct(Oid("commit", 2))

(***************************************************************************)
(* Properties of from_path_or_cloned_with_options (SpecOpen).              *)
(***************************************************************************)
\* C17: from_path_or_cloned_with_options on a path that holds a repository
\* whose remote "origin" is missing, has no URL or has another URL than the
\* expected one returns an error and no Index, calls no clone and leaves
\* the repository and its remote as they were; it calls clone only when
\* Repository::open failed with an error of class Repository, which is when
\* no repository is at the path; it returns any other error of open as it
\* is; and an Index it returns is on a repository whose "origin" has the
\* expected URL.
C17_OpenOrClone ==
    opened # NoIndex =>
        /\ (opened.before.repo /\ opened.before.origin # opened.url) =>
              /\ ~opened.ok
              /\ ~opened.cloned
              /\ disk[opened.path] = opened.before
              /\ ~opened.io.open_fails =>
                    opened.err \in {"find_remote", "url", "mismatch"}
        /\ opened.cloned => ~opened.before.repo /\ ~opened.io.open_fails
        /\ opened.io.open_fails =>
              /\ ~opened.ok /\ opened.err = "open" /\ ~opened.cloned
              /\ disk[opened.path] = opened.before
        /\ (~opened.before.repo /\ ~opened.io.open_fails) =>
              /\ opened.cloned
              /\ opened.ok <=> opened.io.clone
        /\ opened.ok => disk[opened.path] = Repo(opened.url)

\* Opening a clone of a mirror as the index failed with the mismatch error
\* and left the mirror's URL in place.
C17_Witness ==
    /\ opened # NoIndex
    /\ opened.before = Repo("https://example.com/mirror")
    /\ opened.url = INDEX_GIT_URL
    /\ ~opened.ok /\ opened.err = "mismatch" /\ ~opened.cloned
    /\ disk[opened.path] = Repo("https://example.com/mirror")

(***************************************************************************)
(* Properties of a last-seen reference that cannot be read (SpecRef).      *)
(***************************************************************************)
\* C19: a peek_changes or fetch_changes call that began with a last-seen
\* reference that is missing, symbolic or unreadable has the empty tree as
\* its `from`, does not fail for it, and returns the CrateVersion of every
\* parseable line of the tree of `to`; peek_changes leaves the reference as
\* it was, and fetch_changes leaves a direct reference to its `to` in its
\* place.
C19_FallbackOnAnyReadFailure ==
    /\ \A p \in Procs :
          (HasRead(p) /\ call[p].seen0.state # "direct")
             => call[p].from = EMPTY_TREE_HASH
    /\ (ret.op \in Calls /\ ~ret.ok) =>
          ret.err = "refname_to_id" /\ origin_master = 0
    /\ (ret.op \in Calls /\ ret.ok /\ ret.seen0.state # "direct") =>
          ret.value = AllRecordsFrom(remote[ret.to.n], 1)
    /\ (ret.op = "peek_changes") => last_seen = ret.seen0
    /\ (ret.op = "fetch_changes" /\ ret.ok) => last_seen = Direct(ret.to)

\* fetch_changes began with an unreadable reference to commit 1: it returned
\* the records of commit 1 again with those of commit 2 and replaced the
\* reference by a direct one to commit 2.
C19_Witness ==
    /\ ret.op = "fetch_changes" /\ ret.ok
    /\ ret.seen0 = Unreadable(Oid("commit", 1))
    /\ ret.to = Oid("commit", 2)
    /\ Len(ret.value) = 2
    /\ last_seen = Direct(Oid("commit", 2))

====
